---------------------------- MODULE Spec2Model ----------------------------
(***************************************************************************)
(* Model of src/employee.py: the Employee class hierarchy (Employee,       *)
(* Salaried, Hourly, Executive, Manager, Permanent, Temporary), its        *)
(* validating property setters, the class-wide identity counter            *)
(* CURRENT_ID, calc_pay, __str__ and __repr__.                             *)
(*                                                                         *)
(* Python values are records [t, s, n, d, k, tod]:                         *)
(*   t    the Python type name                                             *)
(*   s    the characters of a str (a sequence of one-character strings)    *)
(*   n/d  a number in hundredths (n hundredths over d), the value of an    *)
(*        Enum member, or yyyymmdd of a date                               *)
(*   k    "fin" | "nan" | "inf" for a float                                *)
(*   tod  the time of day of a datetime, in seconds since midnight (-1 for *)
(*        every value that has no time of day)                             *)
(***************************************************************************)
EXTENDS Integers, Sequences, FiniteSets, TLC

VARIABLES
    CURRENT_ID,   \* Employee.CURRENT_ID, the class attribute
    emps,         \* the successfully constructed instances, in construction order
    last          \* the last call: its operation, what it raised, what it returned

vars == <<CURRENT_ID, emps, last>>

\* ------------------------------------------------------------------ bounds

MaxEmps == 1
MaxId == 3

\* ------------------------------------------------------- program constants

MinYearly == 50000
MinHourly == 15
MaxHourlyCents == 9999
WeeksPerYear == 52
HoursPerWeek == 40
FirstId == 1

\* ----------------------------------------------------------- Python values

Val(t, s, n, d, k, tod) == [t |-> t, s |-> s, n |-> n, d |-> d, k |-> k, tod |-> tod]

StrV(cs) == Val("str", cs, 0, 1, "fin", -1)
IntV(i) == Val("int", <<>>, i * 100, 1, "fin", -1)
\* a float given in hundredths: FloatV(9999) is 99.99
FloatV(c) == Val("float", <<>>, c, 1, "fin", -1)
NaN == Val("float", <<>>, 0, 1, "nan", -1)
None == Val("NoneType", <<>>, 0, 1, "fin", -1)
Unset == Val("unset", <<>>, 0, 1, "fin", -1)
Date(ymd) == Val("date", <<>>, ymd, 1, "fin", -1)
DateTime(ymd, tod) == Val("datetime", <<>>, ymd, 1, "fin", tod)

\* class Role(Enum): CEO = 0, CFO = 1, CIO = 2
RoleMember(v) == Val("Role", <<>>, v, 1, "fin", -1)
RoleValues == {0, 1, 2}
Role == {RoleMember(v) : v \in RoleValues}

\* class Department(Enum): ACCOUNTING = 0 .. MACHINING = 4
DepartmentMember(v) == Val("Department", <<>>, v, 1, "fin", -1)
DepartmentValues == {0, 1, 2, 3, 4}
Department == {DepartmentMember(v) : v \in DepartmentValues}

IMAGE_PLACEHOLDER ==
    StrV(<<".", "/", "i", "m", "a", "g", "e", "s", "/", "p", "l", "a", "c", "e",
          "h", "o", "l", "d", "e", "r", ".", "p", "n", "g">>)

\* '@acme-machining.com'
EmailDomain ==
    <<"@", "a", "c", "m", "e", "-", "m", "a", "c", "h", "i", "n", "i", "n", "g",
      ".", "c", "o", "m">>

\* ------------------------------------------------------- Python primitives

\* isinstance(v, types)
isinstance(v, types) == v.t \in types

\* sub in s, for two str
Contains(sub, s) ==
    \E i \in 0..(Len(s) - Len(sub)) : SubSeq(s, i + 1, i + Len(sub)) = sub

\* v < c and v > c raise TypeError unless v is an int or a float
Ordered(v) == v.t \in {"int", "float"}

\* v < c for a number v and c in hundredths; every comparison with nan is False
LessThan(v, c) == v.k = "fin" /\ v.n < c * v.d

GreaterThan(v, c) == v.k = "inf" \/ (v.k = "fin" /\ v.n > c * v.d)

Digit(i) == <<"0", "1", "2", "3", "4", "5", "6", "7", "8", "9">>[i + 1]

RECURSIVE Digits(_)
Digits(i) == IF i < 10 THEN <<Digit(i)>> ELSE Digits(i \div 10) \o <<Digit(i % 10)>>

Pad2(i) == <<Digit(i \div 10), Digit(i % 10)>>

Pad4(i) == <<Digit(i \div 1000), Digit((i \div 100) % 10)>> \o Pad2(i % 100)

IsoDate(ymd) ==
    Pad4(ymd \div 10000) \o <<"-">> \o Pad2((ymd \div 100) % 100) \o <<"-">>
        \o Pad2(ymd % 100)

\* repr of a finite float held in hundredths: 50000.0, 99.99, 14.5
FloatChars(c) ==
    LET a == IF c < 0 THEN -c ELSE c
        frac == a % 100
    IN  (IF c < 0 THEN <<"-">> ELSE <<>>) \o Digits(a \div 100) \o <<".">>
            \o (IF frac % 10 = 0 THEN <<Digit(frac \div 10)>> ELSE Pad2(frac))

\* str(v)
PyStr(v) ==
    CASE v.t = "str" -> v.s
      [] v.t = "int" ->
            (IF v.n < 0 THEN <<"-">> ELSE <<>>)
                \o Digits((IF v.n < 0 THEN -v.n ELSE v.n) \div 100)
      [] v.t = "float" ->
            IF v.k = "nan" THEN <<"n", "a", "n">>
            ELSE IF v.k = "inf" THEN <<"i", "n", "f">>
            ELSE FloatChars(v.n)
      [] v.t = "NoneType" -> <<"N", "o", "n", "e">>
      [] v.t = "Role" ->
            <<"R", "o", "l", "e", ".", "C">>
                \o (CASE v.n = 0 -> <<"E", "O">>
                      [] v.n = 1 -> <<"F", "O">>
                      [] OTHER -> <<"I", "O">>)
      [] v.t = "Department" ->
            <<"D", "e", "p", "a", "r", "t", "m", "e", "n", "t", ".">>
                \o (CASE v.n = 0 -> <<"A", "C", "C", "O", "U", "N", "T", "I", "N", "G">>
                      [] v.n = 1 -> <<"F", "I", "N", "A", "N", "C", "E">>
                      [] v.n = 2 -> <<"H", "R">>
                      [] v.n = 3 -> <<"R", "_", "A", "N", "D", "_", "D">>
                      [] OTHER -> <<"M", "A", "C", "H", "I", "N", "I", "N", "G">>)
      [] v.t = "date" -> IsoDate(v.n)
      [] v.t = "datetime" ->
            IsoDate(v.n) \o <<" ">> \o Pad2(v.tod \div 3600) \o <<":">>
                \o Pad2((v.tod \div 60) % 60) \o <<":">> \o Pad2(v.tod % 60)
      [] OTHER -> <<>>

\* repr of a str without quotes in it
ReprStr(v) == <<"'">> \o v.s \o <<"'">>

\* ------------------------------------- datetime.datetime.strptime(s, '%Y-%m-%d')

DigitChars == {"0", "1", "2", "3", "4", "5", "6", "7", "8", "9"}

DigitVal(c) == CHOOSE i \in 0..9 : Digit(i) = c

\* the character at i, "" past the end
At(cs, i) == IF i >= 1 /\ i <= Len(cs) THEN cs[i] ELSE ""

IsLeap(y) == (y % 4 = 0 /\ y % 100 # 0) \/ y % 400 = 0

DaysInMonth(y, m) ==
    IF m = 2 THEN (IF IsLeap(y) THEN 29 ELSE 28)
    ELSE IF m \in {4, 6, 9, 11} THEN 30 ELSE 31

\* The format's regular expression is
\*   (\d\d\d\d)-(1[0-2]|0[1-9]|[1-9])-(3[0-1]|[1-2]\d|0[1-9]|[1-9]| [1-9])
\* matched as a prefix, then "unconverted data remains" if anything follows, then
\* datetime(y, m, d), which raises for a day the month does not have.
\* Returns [ok, v]: v is the datetime at midnight.
Strptime(cs) ==
    LET yOk == \A i \in 1..4 : At(cs, i) \in DigitChars
        m1 == At(cs, 6)
        m2 == At(cs, 7)
        mTwo == (m1 = "1" /\ m2 \in {"0", "1", "2"})
                    \/ (m1 = "0" /\ m2 \in DigitChars \ {"0"})
        mLen == IF mTwo /\ At(cs, 8) = "-" THEN 2
                ELSE IF m1 \in DigitChars \ {"0"} /\ m2 = "-" THEN 1
                ELSE 0
        p == 7 + mLen
        d1 == At(cs, p)
        d2 == At(cs, p + 1)
        dTwo == (d1 = "3" /\ d2 \in {"0", "1"})
                    \/ (d1 \in {"1", "2"} /\ d2 \in DigitChars)
                    \/ (d1 = "0" /\ d2 \in DigitChars \ {"0"})
        dLen == IF dTwo THEN 2
                ELSE IF d1 \in DigitChars \ {"0"} THEN 1
                ELSE IF d1 = " " /\ d2 \in DigitChars \ {"0"} THEN 2
                ELSE 0
        matched == yOk /\ At(cs, 5) = "-" /\ mLen > 0 /\ dLen > 0
        y == DigitVal(cs[1]) * 1000 + DigitVal(cs[2]) * 100 + DigitVal(cs[3]) * 10
                + DigitVal(cs[4])
        m == IF mLen = 2 THEN DigitVal(m1) * 10 + DigitVal(m2) ELSE DigitVal(m1)
        d == IF dLen = 1 THEN DigitVal(d1)
             ELSE IF d1 = " " THEN DigitVal(d2)
             ELSE DigitVal(d1) * 10 + DigitVal(d2)
    IN  IF ~matched THEN [ok |-> FALSE, v |-> None]
        ELSE IF p + dLen - 1 # Len(cs) THEN [ok |-> FALSE, v |-> None]
        ELSE IF y < 1 \/ d > DaysInMonth(y, m) THEN [ok |-> FALSE, v |-> None]
        ELSE [ok |-> TRUE, v |-> DateTime(y * 10000 + m * 100 + d, 0)]

\* ------------------------------------------------------------------ objects

Classes == {"Salaried", "Hourly", "Executive", "Manager", "Permanent", "Temporary"}

\* an instance before __init__ has set anything
NewObject(cls) ==
    [cls |-> cls, _name |-> Unset, _email |-> Unset, _image |-> Unset,
     id_number |-> 0, _yearly |-> Unset, _hourly |-> Unset, _role |-> Unset,
     _department |-> Unset, _hired_date |-> Unset, _last_day |-> Unset]

\* the outcome of a setter: what it raised ("none": it returned) and the instance
Raise(self, exc) == [exc |-> exc, self |-> self]

Return(self) == [exc |-> "none", self |-> self]

\* -------------------------------------------------------- property setters

name_setter(self, name) ==
    IF name = StrV(<<>>) THEN Raise(self, "ValueError")
    ELSE IF ~isinstance(name, {"str"}) THEN Raise(self, "ValueError")
    ELSE Return([self EXCEPT !._name = name])

\* email_setter with the assignment moved before the validation
email_setter_assign_first(self, email) ==
    LET set == [self EXCEPT !._email = email]
    IN  IF email = StrV(<<>>) THEN Raise(set, "ValueError")
        ELSE IF ~isinstance(email, {"str"}) THEN Raise(set, "ValueError")
        ELSE IF ~Contains(EmailDomain, email.s) THEN Raise(set, "ValueError")
        ELSE Return(set)

email_setter(self, email) ==
    IF email = StrV(<<>>) THEN Raise(self, "ValueError")
    ELSE IF ~isinstance(email, {"str"}) THEN Raise(self, "ValueError")
    ELSE IF ~Contains(EmailDomain, email.s) THEN Raise(self, "ValueError")
    ELSE Return([self EXCEPT !._email = email])

image_setter(self, image) ==
    IF image = StrV(<<>>) THEN Raise(self, "ValueError")
    ELSE IF ~isinstance(image, {"str"}) THEN Raise(self, "ValueError")
    ELSE Return([self EXCEPT !._image = image])

yearly_setter(self, yearly) ==
    IF ~Ordered(yearly) THEN Raise(self, "TypeError")
    ELSE IF LessThan(yearly, 0) \/ LessThan(yearly, MinYearly * 100)
        THEN Raise(self, "ValueError")
    ELSE IF ~isinstance(yearly, {"float"}) THEN Raise(self, "ValueError")
    ELSE Return([self EXCEPT !._yearly = yearly])

hourly_setter(self, hourly) ==
    IF ~Ordered(hourly) THEN Raise(self, "TypeError")
    ELSE IF LessThan(hourly, MinHourly * 100) \/ GreaterThan(hourly, MaxHourlyCents)
        THEN Raise(self, "ValueError")
    ELSE IF ~isinstance(hourly, {"int", "float"}) THEN Raise(self, "ValueError")
    ELSE Return([self EXCEPT !._hourly = hourly])

\* `x in E` for an Enum class E with member set members and values vals. A member
\* of E is in E and a member of another Enum is not, in every Python. For a value
\* that is no Enum member, Python 3.8 to 3.11 raise TypeError and Python 3.12 and
\* later look the value up among the members' values.
PyVersions == {"3.11", "3.12"}

EnumContains(x, members, vals, py) ==
    IF x \in members THEN "True"
    ELSE IF x.t \in {"Role", "Department"} THEN "False"
    ELSE IF py = "3.11" THEN "TypeError"
    ELSE IF x.t \in {"int", "float"} /\ x.k = "fin" /\ x.d = 1 /\ x.n % 100 = 0
            /\ (x.n \div 100) \in vals THEN "True"
    ELSE "False"

role_setter(self, role, py) ==
    LET in == EnumContains(role, Role, RoleValues, py)
    IN  IF in = "TypeError" THEN Raise(self, "TypeError")
        ELSE IF in = "False" THEN Raise(self, "InvalidRoleException")
        ELSE Return([self EXCEPT !._role = role])

department_setter(self, department, py) ==
    LET in == EnumContains(department, Department, DepartmentValues, py)
    IN  IF in = "TypeError" THEN Raise(self, "TypeError")
        ELSE IF in = "False" THEN Raise(self, "InvalidDepartmentException")
        ELSE Return([self EXCEPT !._department = department])

hired_date_setter(self, hired_date) ==
    LET r == Strptime(PyStr(hired_date))
    IN  IF ~r.ok THEN Raise(self, "ValueError")
        ELSE Return([self EXCEPT !._hired_date = r.v])

last_day_setter(self, last_day) ==
    LET r == Strptime(PyStr(last_day))
    IN  IF ~r.ok THEN Raise(self, "ValueError")
        ELSE Return([self EXCEPT !._last_day = r.v])
\* ------------------------------------------------------------- __init__

\* the outcome of an __init__: what it raised, the instance, and CURRENT_ID after it
InitOutcome(o, cur) == [exc |-> o.exc, self |-> o.self, cur |-> cur]

Employee_init(self, name, email, cur) ==
    LET r1 == name_setter(self, name)
        r2 == email_setter(r1.self, email)
        r3 == image_setter(r2.self, IMAGE_PLACEHOLDER)
    IN  IF r1.exc # "none" THEN InitOutcome(r1, cur)
        ELSE IF r2.exc # "none" THEN InitOutcome(r2, cur)
        ELSE IF r3.exc # "none" THEN InitOutcome(r3, cur)
        ELSE [exc |-> "none", self |-> [r3.self EXCEPT !.id_number = cur],
              cur |-> cur + 1]

Salaried_init(self, name, email, yearly, cur) ==
    LET r == Employee_init(self, name, email, cur)
    IN  IF r.exc # "none" THEN r ELSE InitOutcome(yearly_setter(r.self, yearly), r.cur)

Hourly_init(self, name, email, hourly, cur) ==
    LET r == Employee_init(self, name, email, cur)
    IN  IF r.exc # "none" THEN r ELSE InitOutcome(hourly_setter(r.self, hourly), r.cur)

Executive_init(self, name, email, salary, role, cur, py) ==
    LET r == Salaried_init(self, name, email, salary, cur)
    IN  IF r.exc # "none" THEN r ELSE InitOutcome(role_setter(r.self, role, py), r.cur)

Manager_init(self, name, email, salary, department, cur, py) ==
    LET r == Salaried_init(self, name, email, salary, cur)
    IN  IF r.exc # "none" THEN r
        ELSE InitOutcome(department_setter(r.self, department, py), r.cur)

Permanent_init(self, name, email, hourly, hired_date, cur) ==
    LET r == Hourly_init(self, name, email, hourly, cur)
    IN  IF r.exc # "none" THEN r
        ELSE InitOutcome(hired_date_setter(r.self, hired_date), r.cur)

Temporary_init(self, name, email, hourly, last_day, cur) ==
    LET r == Hourly_init(self, name, email, hourly, cur)
    IN  IF r.exc # "none" THEN r
        ELSE InitOutcome(last_day_setter(r.self, last_day), r.cur)

\* ------------------------------------------------------- method resolution

\* class C(B)
Parent ==
    [Salaried |-> "Employee", Hourly |-> "Employee", Executive |-> "Salaried",
     Manager |-> "Salaried", Permanent |-> "Hourly", Temporary |-> "Hourly"]

\* the methods and properties each class body defines
Defines ==
    [Employee |-> {"__str__", "__repr__", "name", "email", "image", "id"},
     Salaried |-> {"yearly", "calc_pay", "__repr__"},
     Hourly |-> {"hourly", "calc_pay", "__repr__"},
     Executive |-> {"role", "__repr__"},
     Manager |-> {"department"},
     Permanent |-> {"hired_date", "__repr__"},
     Temporary |-> {"last_day", "__repr__"}]

\* the class whose definition of attr an instance of cls uses ("object": none)
RECURSIVE Resolve(_, _)
Resolve(cls, attr) ==
    IF attr \in Defines[cls] THEN cls
    ELSE IF cls = "Employee" THEN "object"
    ELSE Resolve(Parent[cls], attr)

\* ---------------------------------------------------------------- calc_pay

RECURSIVE Gcd(_, _)
Gcd(a, b) == IF b = 0 THEN a ELSE Gcd(b, a % b)

\* x / by for a number x and a positive whole number by: a float
Divide(x, by) ==
    IF x.k # "fin" THEN Val("float", <<>>, 0, 1, x.k, -1)
    ELSE LET num == x.n
             den == x.d * by
             g == Gcd(IF num < 0 THEN -num ELSE num, den)
         IN  Val("float", <<>>, num \div g, den \div g, "fin", -1)

\* x * by for a number x and an int by: an int if x is one
Times(x, by) ==
    IF x.k # "fin" THEN Val("float", <<>>, 0, 1, x.k, -1)
    ELSE Val(x.t, <<>>, x.n * by, x.d, "fin", -1)

\* Salaried_calc_pay paying by the month
Salaried_calc_pay_monthly(self) == Divide(self._yearly, 12)

Salaried_calc_pay(self) == Divide(self._yearly, WeeksPerYear)

Hourly_calc_pay(self) == Times(self._hourly, HoursPerWeek)

calc_pay(self) ==
    IF Resolve(self.cls, "calc_pay") = "Salaried" THEN Salaried_calc_pay(self)
    ELSE Hourly_calc_pay(self)

\* ------------------------------------------------------ __str__ and __repr__

Employee_str(self) == StrV(Digits(self.id_number) \o <<":">> \o self._name.s)

\* Employee.__repr__ returns the tuple (name, email, image)
Employee_repr(self) == <<self._name, self._email, self._image>>

\* str of a tuple of three str
TupleStr(tup) ==
    <<"(">> \o ReprStr(tup[1]) \o <<",", " ">> \o ReprStr(tup[2]) \o <<",", " ">>
        \o ReprStr(tup[3]) \o <<")">>

Salaried_repr(self) ==
    StrV(TupleStr(Employee_repr(self)) \o <<",", " ">> \o PyStr(self._yearly))

Hourly_repr(self) ==
    StrV(TupleStr(Employee_repr(self)) \o <<",", " ">> \o PyStr(self._hourly))

Executive_repr(self) == StrV(PyStr(Salaried_repr(self)) \o <<",">> \o PyStr(self._role))

Permanent_repr(self) ==
    StrV(PyStr(Hourly_repr(self)) \o <<",", " ">> \o PyStr(self._hired_date))

Temporary_repr(self) ==
    StrV(PyStr(Hourly_repr(self)) \o <<",", " ">> \o PyStr(self._last_day))

\* self.__repr__()
repr(self) ==
    LET c == Resolve(self.cls, "__repr__")
    IN  CASE c = "Salaried" -> Salaried_repr(self)
          [] c = "Hourly" -> Hourly_repr(self)
          [] c = "Executive" -> Executive_repr(self)
          [] c = "Permanent" -> Permanent_repr(self)
          [] c = "Temporary" -> Temporary_repr(self)

\* ------------------------------------------------------------------ inputs

NameInputs ==
    {StrV(<<"b", "o", "b">>), StrV(<<"a", "l">>), StrV(<<>>), IntV(5), None}

EmailInputs ==
    {StrV(<<"b">> \o EmailDomain), StrV(EmailDomain \o <<"x">>),
     StrV(<<"b", "@", "e", "x", ".", "c", "o", "m">>), StrV(<<>>), IntV(5), None}

ImageInputs == {StrV(<<"x", ".", "p", "n", "g">>), StrV(<<>>), IntV(5), None}

YearlyInputs ==
    {FloatV(4999999), FloatV(5000000), FloatV(10400000), IntV(60000), NaN,
     StrV(<<"a", "b", "c">>), None}

HourlyInputs ==
    {FloatV(1499), IntV(15), IntV(20), FloatV(9999), FloatV(10000), NaN,
     StrV(<<"a", "b", "c">>), None}

RoleInputs == Role \cup {DepartmentMember(2), IntV(0), IntV(5), StrV(<<"C", "E", "O">>), None}

DepartmentInputs ==
    Department \cup {RoleMember(0), IntV(0), IntV(5), StrV(<<"H", "R">>), None}

DateInputs ==
    {StrV(<<"2", "0", "2", "0", "-", "0", "1", "-", "1", "5">>),
     StrV(<<"1", "5", "-", "0", "1", "-", "2", "0", "2", "0">>),
     StrV(<<"2", "0", "2", "0", "-", "1", "-", "5">>),
     StrV(<<"2", "0", "2", "0", "-", "0", "2", "-", "3", "0">>),
     Date(20200115), DateTime(20200115, 0), None}

\* ----------------------------------------------------------------- actions

\* target: the index in emps of the instance called on (0: a constructor call)
Called(op, target, exc, ret) == [op |-> op, target |-> target, exc |-> exc, ret |-> ret]

Init ==
    /\ CURRENT_ID = FirstId
    /\ emps = <<>>
    /\ last = Called("import", 0, "none", None)

CanConstruct == Len(emps) < MaxEmps /\ CURRENT_ID <= MaxId

\* x = Cls(...): the outcome r of Cls.__init__ on a new instance
Constructed(cls, r) ==
    /\ CanConstruct
    /\ CURRENT_ID' = r.cur
    /\ emps' = IF r.exc = "none" THEN Append(emps, r.self) ELSE emps
    /\ last' = Called(cls, 0, r.exc, None)

NewSalaried(name, email, yearly) ==
    Constructed("Salaried",
        Salaried_init(NewObject("Salaried"), name, email, yearly, CURRENT_ID))

NewHourly(name, email, hourly) ==
    Constructed("Hourly", Hourly_init(NewObject("Hourly"), name, email, hourly, CURRENT_ID))

NewExecutive(name, email, salary, role, py) ==
    Constructed("Executive",
        Executive_init(NewObject("Executive"), name, email, salary, role, CURRENT_ID, py))

NewManager(name, email, salary, department, py) ==
    Constructed("Manager",
        Manager_init(NewObject("Manager"), name, email, salary, department, CURRENT_ID, py))

NewPermanent(name, email, hourly, hired_date) ==
    Constructed("Permanent",
        Permanent_init(NewObject("Permanent"), name, email, hourly, hired_date, CURRENT_ID))

NewTemporary(name, email, hourly, last_day) ==
    Constructed("Temporary",
        Temporary_init(NewObject("Temporary"), name, email, hourly, last_day, CURRENT_ID))

ConstructSalaried ==
    /\ CanConstruct
    /\ \E name \in NameInputs, email \in EmailInputs, yearly \in YearlyInputs :
           NewSalaried(name, email, yearly)

ConstructHourly ==
    /\ CanConstruct
    /\ \E name \in NameInputs, email \in EmailInputs, hourly \in HourlyInputs :
           NewHourly(name, email, hourly)

ConstructExecutive ==
    /\ CanConstruct
    /\ \E name \in NameInputs, email \in EmailInputs, salary \in YearlyInputs,
          role \in RoleInputs, py \in PyVersions :
           NewExecutive(name, email, salary, role, py)

ConstructManager ==
    /\ CanConstruct
    /\ \E name \in NameInputs, email \in EmailInputs, salary \in YearlyInputs,
          department \in DepartmentInputs, py \in PyVersions :
           NewManager(name, email, salary, department, py)

ConstructPermanent ==
    /\ CanConstruct
    /\ \E name \in NameInputs, email \in EmailInputs, hourly \in HourlyInputs,
          hired_date \in DateInputs :
           NewPermanent(name, email, hourly, hired_date)

ConstructTemporary ==
    /\ CanConstruct
    /\ \E name \in NameInputs, email \in EmailInputs, hourly \in HourlyInputs,
          last_day \in DateInputs :
           NewTemporary(name, email, hourly, last_day)

\* whether instance i has the property attr
Has(i, attr) == i \in 1..Len(emps) /\ Resolve(emps[i].cls, attr) # "object"

\* emps[i].attr = value, with outcome o of the property's setter
Assigned(i, attr, o) ==
    /\ emps' = [emps EXCEPT ![i] = o.self]
    /\ last' = Called(attr, i, o.exc, None)
    /\ UNCHANGED CURRENT_ID

SetName(i, v) == Has(i, "name") /\ Assigned(i, "name", name_setter(emps[i], v))

SetEmail(i, v) == Has(i, "email") /\ Assigned(i, "email", email_setter(emps[i], v))

SetImage(i, v) == Has(i, "image") /\ Assigned(i, "image", image_setter(emps[i], v))

SetYearly(i, v) == Has(i, "yearly") /\ Assigned(i, "yearly", yearly_setter(emps[i], v))

SetHourly(i, v) == Has(i, "hourly") /\ Assigned(i, "hourly", hourly_setter(emps[i], v))

SetRole(i, v, py) == Has(i, "role") /\ Assigned(i, "role", role_setter(emps[i], v, py))

SetDepartment(i, v, py) ==
    Has(i, "department") /\ Assigned(i, "department", department_setter(emps[i], v, py))

SetHiredDate(i, v) ==
    Has(i, "hired_date") /\ Assigned(i, "hired_date", hired_date_setter(emps[i], v))

SetLastDay(i, v) ==
    Has(i, "last_day") /\ Assigned(i, "last_day", last_day_setter(emps[i], v))

\* a call that only reads
Read(op, i, ret) == last' = Called(op, i, "none", ret) /\ UNCHANGED <<CURRENT_ID, emps>>

CalcPay(i) == i \in 1..Len(emps) /\ Read("calc_pay", i, calc_pay(emps[i]))

CallStr(i) == i \in 1..Len(emps) /\ Read("__str__", i, Employee_str(emps[i]))

CallRepr(i) == i \in 1..Len(emps) /\ Read("__repr__", i, repr(emps[i]))

Slots == 1..MaxEmps

Next ==
    \/ ConstructSalaried
    \/ ConstructHourly
    \/ ConstructExecutive
    \/ ConstructManager
    \/ ConstructPermanent
    \/ ConstructTemporary
    \/ \E i \in Slots, v \in NameInputs : SetName(i, v)
    \/ \E i \in Slots, v \in EmailInputs : SetEmail(i, v)
    \/ \E i \in Slots, v \in ImageInputs : SetImage(i, v)
    \/ \E i \in Slots, v \in YearlyInputs : SetYearly(i, v)
    \/ \E i \in Slots, v \in HourlyInputs : SetHourly(i, v)
    \/ \E i \in Slots, v \in RoleInputs, py \in PyVersions : SetRole(i, v, py)
    \/ \E i \in Slots, v \in DepartmentInputs, py \in PyVersions : SetDepartment(i, v, py)
    \/ \E i \in Slots, v \in DateInputs : SetHiredDate(i, v)
    \/ \E i \in Slots, v \in DateInputs : SetLastDay(i, v)
    \/ \E i \in Slots : CalcPay(i)
    \/ \E i \in Slots : CallStr(i)
    \/ \E i \in Slots : CallRepr(i)

Spec == Init /\ [][Next]_vars
\* ------------------------------------------------------------------ claims

SetterOps ==
    {"name", "email", "image", "yearly", "hourly", "role", "department", "hired_date",
     "last_day"}

SalariedRooted == {"Salaried", "Executive", "Manager"}

HourlyRooted == {"Hourly", "Permanent", "Temporary"}

\* v >= c and v <= c, for a number v and c in hundredths (False for nan)
AtLeast(v, c) == v.k = "inf" \/ (v.k = "fin" /\ v.n >= c * v.d)

AtMost(v, c) == v.k = "fin" /\ v.n <= c * v.d

NonEmptyStr(v) == v.t = "str" /\ v.s # <<>>

\* C1: the first successfully constructed employee has id 1, two employees have
\* distinct ids, a later one a strictly greater id than every earlier one, and no
\* call changes the id of an existing employee.
C1_IdsAscendFromOne ==
    /\ [](/\ Len(emps) >= 1 => emps[1].id_number = 1
          /\ \A i, j \in 1..Len(emps) : i < j => emps[i].id_number < emps[j].id_number)
    /\ [][\A i \in 1..Len(emps) : emps'[i].id_number = emps[i].id_number]_vars

\* C2: a setter call that fails leaves every field of every instance, the field
\* being set included, and the identity counter as they were before the call.
C2_FailedSetterKeepsState ==
    [][(last'.op \in SetterOps /\ last'.exc # "none")
            => (emps' = emps /\ CURRENT_ID' = CURRENT_ID)]_vars

\* C2's case: an email assignment has failed on an instance that holds the email
\* it was given before.
C2_FailedSetterSeen ==
    /\ last.op = "email"
    /\ last.exc = "ValueError"
    /\ last.target \in 1..Len(emps)
    /\ emps[last.target]._email = StrV(EmailDomain \o <<"x">>)

\* C3: a construction that fails leaves the identity counter as it was.
C3_FailedConstructionKeepsCounter ==
    [][(last'.op \in Classes /\ last'.exc # "none") => CURRENT_ID' = CURRENT_ID]_vars

\* C4: every constructed employee has a non-empty str name, a non-empty str email
\* containing the domain, a non-empty str image and an id >= 1; a Salaried-rooted
\* one a float yearly >= 50000, an Hourly-rooted one an int or float hourly with
\* 15 <= hourly <= 99.99.
C4_FieldsValid ==
    \A i \in 1..Len(emps) :
        LET e == emps[i]
        IN  /\ NonEmptyStr(e._name)
            /\ NonEmptyStr(e._email) /\ Contains(EmailDomain, e._email.s)
            /\ NonEmptyStr(e._image)
            /\ e.id_number >= 1
            /\ e.cls \in SalariedRooted
                  => e._yearly.t = "float" /\ AtLeast(e._yearly, 5000000)
            /\ e.cls \in HourlyRooted
                  => /\ e._hourly.t \in {"int", "float"}
                     /\ AtLeast(e._hourly, 1500) /\ AtMost(e._hourly, 9999)

\* C5: the role setter and Executive construction raise InvalidRoleException for
\* every value that is no Role member and otherwise succeed and store the member;
\* the department setter and Manager construction likewise with
\* InvalidDepartmentException and the Department members.
C5_EnumErrors ==
    [][/\ \A i \in Slots, v \in RoleInputs, py \in PyVersions :
            SetRole(i, v, py)
                => IF v \in Role THEN last'.exc = "none" /\ emps'[i]._role = v
                   ELSE last'.exc = "InvalidRoleException"
       /\ \A i \in Slots, v \in DepartmentInputs, py \in PyVersions :
            SetDepartment(i, v, py)
                => IF v \in Department
                   THEN last'.exc = "none" /\ emps'[i]._department = v
                   ELSE last'.exc = "InvalidDepartmentException"
       /\ last'.op = "Executive"
            => \A name \in NameInputs, email \in EmailInputs, salary \in YearlyInputs,
                  role \in RoleInputs, py \in PyVersions :
                  (/\ NewExecutive(name, email, salary, role, py)
                   /\ Salaried_init(NewObject("Executive"), name, email, salary,
                                    CURRENT_ID).exc = "none")
                      => IF role \in Role
                         THEN last'.exc = "none" /\ emps'[Len(emps')]._role = role
                         ELSE last'.exc = "InvalidRoleException"
       /\ last'.op = "Manager"
            => \A name \in NameInputs, email \in EmailInputs, salary \in YearlyInputs,
                  department \in DepartmentInputs, py \in PyVersions :
                  (/\ NewManager(name, email, salary, department, py)
                   /\ Salaried_init(NewObject("Manager"), name, email, salary,
                                    CURRENT_ID).exc = "none")
                      => IF department \in Department
                         THEN /\ last'.exc = "none"
                              /\ emps'[Len(emps')]._department = department
                         ELSE last'.exc = "InvalidDepartmentException"]_vars

\* C6: an assignment to name, email, image, yearly or hourly that fails, for a value
\* of the wrong type as for a blank or out-of-range one, fails with ValueError.
C6_WrongTypeIsValueError ==
    (last.op \in {"name", "email", "image", "yearly", "hourly"} /\ last.exc # "none")
        => last.exc = "ValueError"

YearlyAcceptable(v) == v.t = "float" /\ AtLeast(v, 5000000)

HourlyAcceptable(v) == v.t \in {"int", "float"} /\ AtLeast(v, 1500) /\ AtMost(v, 9999)

\* C7: the yearly setter and Salaried construction accept a value exactly when it is
\* a float >= 50000; the hourly setter and Hourly construction exactly when it is an
\* int or float with 15 <= v <= 99.99.
C7_PayAcceptedExactlyInRange ==
    [][/\ \A i \in Slots, v \in YearlyInputs :
            SetYearly(i, v) => (last'.exc = "none" <=> YearlyAcceptable(v))
       /\ \A i \in Slots, v \in HourlyInputs :
            SetHourly(i, v) => (last'.exc = "none" <=> HourlyAcceptable(v))
       /\ last'.op = "Salaried"
            => \A name \in NameInputs, email \in EmailInputs, v \in YearlyInputs :
                  (/\ NewSalaried(name, email, v)
                   /\ Employee_init(NewObject("Salaried"), name, email,
                                    CURRENT_ID).exc = "none")
                      => (last'.exc = "none" <=> YearlyAcceptable(v))
       /\ last'.op = "Hourly"
            => \A name \in NameInputs, email \in EmailInputs, v \in HourlyInputs :
                  (/\ NewHourly(name, email, v)
                   /\ Employee_init(NewObject("Hourly"), name, email,
                                    CURRENT_ID).exc = "none")
                      => (last'.exc = "none" <=> HourlyAcceptable(v))]_vars

\* yearly / 52 for a Salaried-rooted instance, hourly * 40 for an Hourly-rooted one
ExpectedPay(e) ==
    IF e.cls \in SalariedRooted THEN Divide(e._yearly, 52) ELSE Times(e._hourly, 40)

\* C8: calc_pay() returns yearly / 52 of the instance as it is for Salaried,
\* Executive and Manager and hourly * 40 for Hourly, Permanent and Temporary
\* (2000.0 for yearly 104000.0, 800 for hourly 20), and changes no field of any
\* instance and not the identity counter.
C8_CalcPay ==
    [][last'.op = "calc_pay"
            => /\ emps' = emps /\ CURRENT_ID' = CURRENT_ID
               /\ last'.exc = "none"
               /\ last'.target \in 1..Len(emps)
               /\ LET e == emps[last'.target]
                  IN  /\ last'.ret = ExpectedPay(e)
                      /\ e._yearly = FloatV(10400000) => last'.ret = FloatV(200000)
                      /\ e._hourly = IntV(20) => last'.ret = IntV(800)]_vars

\* C8's case: calc_pay() has returned 2000.0 for a Manager with yearly 104000.0.
C8_ManagerPaid ==
    /\ last.op = "calc_pay"
    /\ last.target \in 1..Len(emps)
    /\ emps[last.target].cls = "Manager"
    /\ emps[last.target]._yearly = FloatV(10400000)
    /\ last.ret = FloatV(200000)

\* whether v is a str of the form YYYY-MM-DD (four, two and two digits) naming a day
\* of the calendar
IsYMD(v) ==
    /\ v.t = "str" /\ Len(v.s) = 10
    /\ \A i \in {1, 2, 3, 4, 6, 7, 9, 10} : v.s[i] \in DigitChars
    /\ v.s[5] = "-" /\ v.s[8] = "-"
    /\ LET y == DigitVal(v.s[1]) * 1000 + DigitVal(v.s[2]) * 100
                    + DigitVal(v.s[3]) * 10 + DigitVal(v.s[4])
           m == DigitVal(v.s[6]) * 10 + DigitVal(v.s[7])
           d == DigitVal(v.s[9]) * 10 + DigitVal(v.s[10])
       IN  y >= 1 /\ m \in 1..12 /\ d \in 1..DaysInMonth(y, m)

\* the calendar date a YYYY-MM-DD str names
YMDDate(v) ==
    Date((DigitVal(v.s[1]) * 1000 + DigitVal(v.s[2]) * 100 + DigitVal(v.s[3]) * 10
            + DigitVal(v.s[4])) * 10000
         + (DigitVal(v.s[6]) * 10 + DigitVal(v.s[7])) * 100
         + DigitVal(v.s[9]) * 10 + DigitVal(v.s[10]))

\* C9: assigning a YYYY-MM-DD str to hired_date or last_day (in the setter or in
\* construction) succeeds and the field then reads a calendar date, with no time of
\* day, equal to that date; assigning a str not of that form fails.
C9_DateStored ==
    /\ [](\A i \in 1..Len(emps) :
            /\ emps[i].cls = "Permanent"
                  => emps[i]._hired_date.t = "date" /\ emps[i]._hired_date.tod = -1
            /\ emps[i].cls = "Temporary"
                  => emps[i]._last_day.t = "date" /\ emps[i]._last_day.tod = -1)
    /\ [][\A i \in Slots, v \in {x \in DateInputs : x.t = "str"} :
            /\ SetHiredDate(i, v)
                  => IF IsYMD(v)
                     THEN last'.exc = "none" /\ emps'[i]._hired_date = YMDDate(v)
                     ELSE last'.exc # "none"
            /\ SetLastDay(i, v)
                  => IF IsYMD(v)
                     THEN last'.exc = "none" /\ emps'[i]._last_day = YMDDate(v)
                     ELSE last'.exc # "none"]_vars

\* whether the strings of parts occur in s one after the other, in this order
RECURSIVE InOrder(_, _)
InOrder(parts, s) ==
    IF parts = <<>> THEN TRUE
    ELSE LET p == Head(parts)
             at == {i \in 0..(Len(s) - Len(p)) : SubSeq(s, i + 1, i + Len(p)) = p}
         IN  /\ at # {}
             /\ LET first == CHOOSE i \in at : \A j \in at : i <= j
                IN  InOrder(Tail(parts), SubSeq(s, first + Len(p) + 1, Len(s)))

\* the variant's own field
OwnField(e) ==
    CASE e.cls = "Executive" -> <<PyStr(e._role)>>
      [] e.cls = "Manager" -> <<PyStr(e._department)>>
      [] e.cls = "Permanent" -> <<PyStr(e._hired_date)>>
      [] e.cls = "Temporary" -> <<PyStr(e._last_day)>>
      [] OTHER -> <<>>

\* C10: __repr__ of every variant holds name, email, image, then yearly or hourly,
\* then the variant's own field; __str__ is "<id>:<name>".
C10_ReprHasEveryField ==
    \A i \in 1..Len(emps) :
        LET e == emps[i]
        IN  /\ InOrder(<<e._name.s, e._email.s, e._image.s,
                         PyStr(IF e.cls \in SalariedRooted THEN e._yearly ELSE e._hourly)>>
                            \o OwnField(e),
                       repr(e).s)
            /\ Employee_str(e).s = Digits(e.id_number) \o <<":">> \o e._name.s

=============================================================================
